---------------------------- MODULE Spec2Model ----------------------------
(***************************************************************************)
(* Forex Converter API (app/main.py): the observability middleware, the    *)
(* handlers and the conversion arithmetic, as a state machine.             *)
(*                                                                         *)
(* Python floats are IEEE-754 binary64.  They are modelled exactly: a      *)
(* finite float is  m * 2^e  with m an unbounded natural kept as a         *)
(* little-endian sequence of base-2^15 limbs, and every operation rounds   *)
(* to nearest-even as the hardware does.                                   *)
(***************************************************************************)
EXTENDS Integers, Sequences, FiniteSets, TLC

(***************************************************************************)
(* Unbounded naturals: <<>> is 0, limbs are least-significant first, the   *)
(* most significant limb is never 0.                                       *)
(***************************************************************************)
Base == 2 ^ 15

RECURSIVE SmallBitLen(_)
SmallBitLen(x) == IF x = 0 THEN 0 ELSE 1 + SmallBitLen(x \div 2)

LimbBits == SmallBitLen(Base) - 1

Pow2Small(k) == CASE k = 0 -> 1 [] k = 1 -> 2 [] k = 2 -> 4 [] k = 3 -> 8
                  [] k = 4 -> 16 [] k = 5 -> 32 [] k = 6 -> 64 [] k = 7 -> 128
                  [] k = 8 -> 256 [] k = 9 -> 512 [] k = 10 -> 1024
                  [] k = 11 -> 2048 [] k = 12 -> 4096 [] k = 13 -> 8192
                  [] k = 14 -> 16384 [] OTHER -> 32768

RECURSIVE BigNorm(_)
BigNorm(a) == IF a = <<>> THEN <<>>
              ELSE IF a[Len(a)] = 0 THEN BigNorm(SubSeq(a, 1, Len(a) - 1))
              ELSE a

RECURSIVE BigFromNat(_)
BigFromNat(n) == IF n = 0 THEN <<>>
                 ELSE <<n % Base>> \o BigFromNat(n \div Base)

RECURSIVE BigAddC(_, _, _)
BigAddC(a, b, c) ==
    IF a = <<>> /\ b = <<>> THEN (IF c = 0 THEN <<>> ELSE <<c>>)
    ELSE LET x == IF a = <<>> THEN 0 ELSE Head(a)
             y == IF b = <<>> THEN 0 ELSE Head(b)
             s == x + y + c
         IN  <<s % Base>> \o BigAddC(IF a = <<>> THEN <<>> ELSE Tail(a),
                                     IF b = <<>> THEN <<>> ELSE Tail(b),
                                     s \div Base)

BigAdd(a, b) == BigAddC(a, b, 0)

\* a - b for a >= b
RECURSIVE BigSubB(_, _, _)
BigSubB(a, b, w) ==
    IF a = <<>> THEN <<>>
    ELSE LET y == IF b = <<>> THEN 0 ELSE Head(b)
             d == Head(a) - y - w
         IN  <<IF d < 0 THEN d + Base ELSE d>>
                \o BigSubB(Tail(a), IF b = <<>> THEN <<>> ELSE Tail(b),
                           IF d < 0 THEN 1 ELSE 0)

BigSub(a, b) == BigNorm(BigSubB(a, b, 0))

\* -1, 0, 1 as a < b, a = b, a > b
RECURSIVE BigCmpFrom(_, _, _)
BigCmpFrom(a, b, i) ==
    IF i = 0 THEN 0
    ELSE IF a[i] < b[i] THEN -1
    ELSE IF a[i] > b[i] THEN 1
    ELSE BigCmpFrom(a, b, i - 1)

BigCmp(a, b) == IF Len(a) < Len(b) THEN -1
                ELSE IF Len(a) > Len(b) THEN 1
                ELSE BigCmpFrom(a, b, Len(a))

\* a * k + c for 0 <= k, c < Base
RECURSIVE BigMulSmallC(_, _, _)
BigMulSmallC(a, k, c) ==
    IF a = <<>> THEN (IF c = 0 THEN <<>> ELSE <<c>>)
    ELSE LET p == Head(a) * k + c
         IN  <<p % Base>> \o BigMulSmallC(Tail(a), k, p \div Base)

BigMulSmall(a, k) == BigNorm(BigMulSmallC(a, k, 0))

RECURSIVE BigMul(_, _)
BigTimesBase(a) == IF a = <<>> THEN <<>> ELSE <<0>> \o a

BigMul(a, b) ==
    IF a = <<>> \/ b = <<>> THEN <<>>
    ELSE BigAdd(BigMulSmall(a, Head(b)), BigTimesBase(BigMul(a, Tail(b))))

Zeros(n) == [i \in 1..n |-> 0]

\* a * 2^n
BigShl(a, n) ==
    IF a = <<>> THEN <<>>
    ELSE Zeros(n \div LimbBits) \o BigMulSmall(a, Pow2Small(n % LimbBits))

\* floor(a / k) for 0 < k <= Base, most significant limb first
RECURSIVE BigDivSmallFrom(_, _, _, _)
BigDivSmallFrom(a, k, i, r) ==
    IF i = 0 THEN <<>>
    ELSE LET cur == r * Base + a[i]
         IN  BigDivSmallFrom(a, k, i - 1, cur % k) \o <<cur \div k>>

BigDivSmall(a, k) == BigNorm(BigDivSmallFrom(a, k, Len(a), 0))

\* floor(a / 2^n)
BigShr(a, n) ==
    IF n \div LimbBits >= Len(a) THEN <<>>
    ELSE BigDivSmall(SubSeq(a, n \div LimbBits + 1, Len(a)),
                     Pow2Small(n % LimbBits))

\* a mod 2^n
BigLow(a, n) == BigSub(a, BigShl(BigShr(a, n), n))

\* a mod 2^n = 0
BigLowIsZero(a, n) ==
    /\ \A i \in 1..(n \div LimbBits) : i > Len(a) \/ a[i] = 0
    /\ \/ n \div LimbBits >= Len(a)
       \/ a[n \div LimbBits + 1] % Pow2Small(n % LimbBits) = 0

BitLen(a) == IF a = <<>> THEN 0
             ELSE LimbBits * (Len(a) - 1) + SmallBitLen(a[Len(a)])

BigOdd(a) == a # <<>> /\ a[1] % 2 = 1

BigOne == <<1>>

RECURSIVE BigPow(_, _)
BigSquare(h) == BigMul(h, h)

\* b^n for 0 < b < Base, by squaring
BigPow(b, n) ==
    IF n = 0 THEN BigOne
    ELSE IF n % 2 = 1 THEN BigMulSmall(BigPow(b, n - 1), b)
    ELSE BigSquare(BigPow(b, n \div 2))

BigPow10(n) == BigPow(10, n)

\* the largest d in lo..hi with b * d <= cur
RECURSIVE QDigit(_, _, _, _)
QDigit(cur, b, lo, hi) ==
    IF lo = hi THEN lo
    ELSE IF BigCmp(BigMulSmall(b, (lo + hi + 1) \div 2), cur) <= 0
    THEN QDigit(cur, b, (lo + hi + 1) \div 2, hi)
    ELSE QDigit(cur, b, lo, (lo + hi + 1) \div 2 - 1)

\* schoolbook division, one limb of a at a time from limb i down; r < b
RECURSIVE BigDivLimbs(_, _, _, _)
DivPrepend(d, rest) == [q |-> rest.q \o <<d>>, r |-> rest.r]

DivRest(a, b, i, cur, d) ==
    DivPrepend(d, BigDivLimbs(a, b, i - 1, BigSub(cur, BigMulSmall(b, d))))

DivDigit(a, b, i, cur) == DivRest(a, b, i, cur, QDigit(cur, b, 0, Base - 1))

BigDivLimbs(a, b, i, r) ==
    IF i = 0 THEN [q |-> <<>>, r |-> r]
    ELSE DivDigit(a, b, i, BigNorm(<<a[i]>> \o r))

DivNorm(qr) == [q |-> BigNorm(qr.q), r |-> qr.r]

\* [q |-> floor(a / b), r |-> a mod b] for b > 0
BigDivMod(a, b) ==
    IF BigCmp(a, b) < 0 THEN [q |-> <<>>, r |-> a]
    ELSE DivNorm(BigDivLimbs(a, b, Len(a) - Len(b) + 1,
                             SubSeq(a, Len(a) - Len(b) + 2, Len(a))))

\* m or m + 1: c compares the dropped bits with one half
RoundUp(m, c, sticky) ==
    IF c > 0 \/ (c = 0 /\ (sticky \/ BigOdd(m))) THEN BigAdd(m, BigOne) ELSE m

\* round-half-even of a / 2^n (sticky: a nonzero fraction below a was dropped)
BigRoundShr(a, n, sticky) ==
    IF n = 0 THEN a
    ELSE IF n > BitLen(a) + 1 THEN <<>>
    ELSE RoundUp(BigShr(a, n), BigCmp(BigLow(a, n), BigShl(BigOne, n - 1)),
                 sticky)

(***************************************************************************)
(* binary64.  A float is [cls, neg, m, e]: cls "fin" is (-1)^neg * m * 2^e *)
(* with m < 2^53, and m >= 2^52 unless e = MinExp (subnormal) or m = 0     *)
(* (then e = 0); cls "inf" and "nan" carry m = <<>>, e = 0.                *)
(***************************************************************************)
MantBits == 52 + 1
MinExp == 0 - 1074
MaxExp == 1024 - MantBits                        \* largest e of a finite float

Fin(neg, m, e) == [cls |-> "fin", neg |-> neg, m |-> m, e |-> e]
Inf(neg) == [cls |-> "inf", neg |-> neg, m |-> <<>>, e |-> 0]
NaN == [cls |-> "nan", neg |-> FALSE, m |-> <<>>, e |-> 0]
FZero(neg) == Fin(neg, <<>>, 0)

\* m * 2^e with m < 2^(MantBits + 1), after rounding
Pack(neg, m, e) ==
    IF m = <<>> THEN FZero(neg)
    ELSE IF BitLen(m) > MantBits
    THEN (IF e + 1 > MaxExp THEN Inf(neg) ELSE Fin(neg, BigShr(m, 1), e + 1))
    ELSE IF e > MaxExp THEN Inf(neg)
    ELSE Fin(neg, m, e)

\* the exponent the quotient q * 2^eq is rounded at
TargetExp(eq, qbits) ==
    IF eq + qbits - MantBits < MinExp THEN MinExp ELSE eq + qbits - MantBits

RoundAt(neg, qs, eq, et) ==
    Pack(neg, BigRoundShr(qs.q, et - eq, qs.sticky), et)

RoundQuotient(neg, qs, eq) ==
    RoundAt(neg, qs, eq, TargetExp(eq, BitLen(qs.q)))

Sticky(qr, lost) == [q |-> qr.q, sticky |-> lost \/ qr.r # <<>>]

\* floor(num * 2^k / den) and whether anything was left below it
ScaledDiv(num, den, k) ==
    IF k >= 0
    THEN Sticky(BigDivMod(BigShl(num, k), den), FALSE)
    ELSE Sticky(BigDivMod(BigShr(num, 0 - k), den), ~BigLowIsZero(num, 0 - k))

RoundScaled(neg, num, den, e2, k) ==
    RoundQuotient(neg, ScaledDiv(num, den, k), e2 - k)

\* The float nearest to (-1)^neg * (num / den) * 2^e2, ties to even,
\* overflowing to infinity and underflowing gradually.  The quotient is
\* taken to MantBits + 2 bits; what lies below it only breaks ties.
RoundToDouble(neg, num, den, e2) ==
    IF num = <<>> THEN FZero(neg)
    ELSE RoundScaled(neg, num, den, e2,
                     MantBits + 2 + BitLen(den) - BitLen(num))

\* x * y
FloatMul(x, y) ==
    IF x.cls = "nan" \/ y.cls = "nan" THEN NaN
    ELSE IF x.cls = "inf" \/ y.cls = "inf"
    THEN (IF (x.cls = "fin" /\ x.m = <<>>) \/ (y.cls = "fin" /\ y.m = <<>>)
          THEN NaN ELSE Inf(x.neg # y.neg))
    ELSE RoundToDouble(x.neg # y.neg, BigMul(x.m, y.m), BigOne, x.e + y.e)

\* x / y for y # 0 (Python raises ZeroDivisionError on y = 0)
FloatDiv(x, y) ==
    IF x.cls = "nan" \/ y.cls = "nan" THEN NaN
    ELSE IF x.cls = "inf" THEN (IF y.cls = "inf" THEN NaN ELSE Inf(x.neg # y.neg))
    ELSE IF y.cls = "inf" THEN FZero(x.neg # y.neg)
    ELSE RoundToDouble(x.neg # y.neg, x.m, y.m, x.e - y.e)

FloatIsZero(x) == x.cls = "fin" /\ x.m = <<>>

\* x <= 0: every comparison with nan is False
FloatLeZero(x) ==
    CASE x.cls = "nan" -> FALSE
      [] x.cls = "inf" -> x.neg
      [] OTHER -> x.neg \/ x.m = <<>>

\* x == y: nan equals nothing, -0.0 == 0.0
FloatEq(x, y) ==
    IF x.cls = "nan" \/ y.cls = "nan" THEN FALSE
    ELSE IF FloatIsZero(x) /\ FloatIsZero(y) THEN TRUE
    ELSE x = y

\* round(x, nd): the decimal with nd places nearest to x (ties to even, as
\* dtoa does), read back as a float; nan and infinities round to
\* themselves, and so does a float with e >= 0, which is an integer.
FloatRound(x, nd) ==
    IF x.cls # "fin" \/ x.m = <<>> \/ x.e >= 0 THEN x
    ELSE RoundToDouble(x.neg,
                       BigRoundShr(BigMul(x.m, BigPow10(nd)), 0 - x.e, FALSE),
                       BigPow10(nd), 0)

\* The float a JSON / Python decimal literal  digits * 10^exp10  denotes
\* (10^n = 5^n * 2^n).
FromDecimal(neg, digits, exp10) ==
    IF exp10 >= 0
    THEN RoundToDouble(neg, BigMul(BigFromNat(digits), BigPow(5, exp10)), BigOne, exp10)
    ELSE RoundToDouble(neg, BigFromNat(digits), BigPow(5, 0 - exp10), exp10)


(***************************************************************************)
(* Bounds of the model.                                                    *)
(***************************************************************************)
MaxRequests == 2
MaxTime == 2

(***************************************************************************)
(* Strings the code transforms are sequences of one-character strings.     *)
(***************************************************************************)
UpperOf == [a |-> "A", b |-> "B", c |-> "C", d |-> "D", e |-> "E", f |-> "F",
            g |-> "G", h |-> "H", i |-> "I", j |-> "J", k |-> "K", l |-> "L",
            m |-> "M", n |-> "N", o |-> "O", p |-> "P", q |-> "Q", r |-> "R",
            s |-> "S", t |-> "T", u |-> "U", v |-> "V", w |-> "W", x |-> "X",
            y |-> "Y", z |-> "Z"]

\* str.upper()
upper(str) == [i \in 1..Len(str) |->
                  IF str[i] \in DOMAIN UpperOf THEN UpperOf[str[i]] ELSE str[i]]

(***************************************************************************)
(* EXCHANGE_RATES, each rate the float its literal denotes.                *)
(***************************************************************************)
USD == <<"U", "S", "D">>
EUR == <<"E", "U", "R">>
GBP == <<"G", "B", "P">>
JPY == <<"J", "P", "Y">>
CAD == <<"C", "A", "D">>
AUD == <<"A", "U", "D">>
CHF == <<"C", "H", "F">>
CNY == <<"C", "N", "Y">>
INR == <<"I", "N", "R">>
MAD == <<"M", "A", "D">>
BTC == <<"B", "T", "C">>

\* the literals of EXCHANGE_RATES: <<digits, places>> is digits / 10^places
RateLiterals ==
    (USD :> <<10, 1>>) @@ (EUR :> <<92, 2>>) @@ (GBP :> <<79, 2>>) @@
    (JPY :> <<15150, 2>>) @@ (CAD :> <<136, 2>>) @@ (AUD :> <<149, 2>>) @@
    (CHF :> <<89, 2>>) @@ (CNY :> <<723, 2>>) @@ (INR :> <<8333, 2>>) @@
    (MAD :> <<1007, 2>>) @@ (BTC :> <<15, 6>>)

EXCHANGE_RATES ==
    [code \in DOMAIN RateLiterals |->
        FromDecimal(FALSE, RateLiterals[code][1], 0 - RateLiterals[code][2])]

(***************************************************************************)
(* The state.                                                              *)
(***************************************************************************)
VARIABLES
    now,                \* the clock time.time() and datetime.utcnow() read
    app_start_time,     \* time.time() when the module was loaded
    REQUEST_COUNT,      \* forex_http_requests_total: labels -> value
    REQUEST_LATENCY,    \* forex_http_request_duration_seconds: labels -> count, sum
    CONVERSION_COUNT,   \* forex_conversions_total: labels -> value
    uuids,              \* how many identifiers uuid.uuid4() has issued
    requests            \* every request that entered add_observability, in order

vars == <<now, app_start_time, REQUEST_COUNT, REQUEST_LATENCY,
          CONVERSION_COUNT, uuids, requests>>

\* prometheus_client: a labelled series exists from its first use and starts at 0
Value(counter, labels) ==
    IF labels \in DOMAIN counter THEN counter[labels] ELSE 0

\* Counter.labels(...).inc()
Inc(counter, labels) ==
    IF labels \in DOMAIN counter
    THEN [counter EXCEPT ![labels] = @ + 1]
    ELSE counter @@ (labels :> 1)

\* Histogram.labels(...).observe(amount)
Observe(histogram, labels, amount) ==
    IF labels \in DOMAIN histogram
    THEN [histogram EXCEPT ![labels] =
             [count |-> @.count + 1, sum |-> @.sum + amount]]
    ELSE histogram @@ (labels :> [count |-> 1, sum |-> amount])

\* a label value is the str() of what was passed
StatusLabel(code) ==
    CASE code = 200 -> "200" [] code = 400 -> "400"
      [] code = 422 -> "422" [] code = 500 -> "500"

NoHeaders == [h \in {} |-> ""]
NoResponse == [status |-> 0, headers |-> NoHeaders, content |-> [none |-> TRUE]]


(***************************************************************************)
(* The requests the model sends.                                           *)
(***************************************************************************)
Get(path) == [method |-> "GET", path |-> path, body |-> [valid |-> TRUE]]

Post(amount, from_currency, to_currency) ==
    [method |-> "POST", path |-> "/convert",
     body |-> [valid |-> TRUE, amount |-> amount,
               from_currency |-> from_currency, to_currency |-> to_currency]]

\* a body with "amount": "abc"
Malformed ==
    [method |-> "POST", path |-> "/convert",
     body |-> [valid |-> FALSE, amount |-> NaN,
               from_currency |-> USD, to_currency |-> EUR]]

Hundred == FromDecimal(FALSE, 100, 0)
Zero == FromDecimal(FALSE, 0, 0)
MinusOne == FromDecimal(TRUE, 1, 0)
Small == FromDecimal(FALSE, 385, 0 - 5)           \* 0.00385
Fraction == FromDecimal(FALSE, 123456789, 0 - 3)  \* 123456.789
Huge == Fin(FALSE, BigShl(BigOne, MantBits - 1), MaxExp)  \* 2^1023, 8.98846567431158e307

usd == <<"u", "s", "d">>
Eur == <<"E", "u", "r">>
XXX == <<"X", "X", "X">>
yyy == <<"y", "y", "y">>

\* the amounts and codes of the conversion requests
Amounts == {Hundred, Zero, MinusOne, Small, Fraction, Huge, Inf(FALSE), NaN}
Codes == {USD, usd, Eur, BTC, JPY, XXX, yyy}

ConvertRequests ==
    {Post(a, f, t) : a \in Amounts, f \in Codes, t \in Codes} \cup {Malformed}

\* conversions of a positive finite amount from a currency to itself
SameCurrencyRequests ==
    {Post(a, c, c) : a \in {Hundred, Small, Fraction}, c \in DOMAIN EXCHANGE_RATES}

\* the requests that interleave
Requests ==
    {Get("/health"), Post(Hundred, usd, EUR), Post(Hundred, XXX, EUR),
     Post(Huge, BTC, USD)}

\* the conversions these requests ask for that pass validation
Conversions ==
    {<<r.body.amount, upper(r.body.from_currency), upper(r.body.to_currency)>> :
        r \in {q \in ConvertRequests \cup SameCurrencyRequests \cup Requests :
                 /\ q.path = "/convert"
                 /\ upper(q.body.from_currency) \in DOMAIN EXCHANGE_RATES
                 /\ upper(q.body.to_currency) \in DOMAIN EXCHANGE_RATES}}

(***************************************************************************)
(* The handlers.  A handler's outcome is what it returns (with the floats  *)
(* the returned dictionary holds) or the HTTPException it raises;          *)
(* convert's also says whether line 168 counted the conversion, and under  *)
(* which labels.                                                           *)
(***************************************************************************)
Returned(content) ==
    [kind |-> "return", status_code |-> 200, content |-> content,
     floats |-> {}, counted |-> FALSE, labels |-> <<>>]

HTTPException(status_code, detail) ==
    [kind |-> "HTTPException", status_code |-> status_code,
     content |-> [detail |-> detail], floats |-> {},
     counted |-> FALSE, labels |-> <<>>]

root ==
    Returned([message |-> "Welcome to the Forex Converter API",
              version |-> "1.0.0",
              endpoints |-> {"/docs", "/health", "/metrics", "/currencies",
                             "/convert"}])

\* health_check with the subtraction of line 122 turned round
health_checkReversed(t) ==
    Returned([status |-> "healthy", service |-> "forex-converter-api",
              version |-> "1.0.0", timestamp |-> t,
              uptime |-> app_start_time - t])

health_check(t) ==
    Returned([status |-> "healthy", service |-> "forex-converter-api",
              version |-> "1.0.0", timestamp |-> t,
              uptime |-> t - app_start_time])

metrics ==
    Returned([forex_http_requests_total |-> REQUEST_COUNT,
              forex_http_request_duration_seconds |-> REQUEST_LATENCY,
              forex_conversions_total |-> CONVERSION_COUNT])

list_currencies(t) ==
    Returned([available_currencies |-> DOMAIN EXCHANGE_RATES,
              base_currency |-> "USD",
              count |-> Cardinality(DOMAIN EXCHANGE_RATES),
              timestamp |-> t])

\* the dictionary convert returns, lines 171-178
ConversionResult(original_amount, from_curr, to_curr, converted_amount, exchange_rate, t) ==
    [kind |-> "return", status_code |-> 200,
     content |-> [original_amount |-> original_amount,
                  from_currency |-> from_curr,
                  to_currency |-> to_curr,
                  converted_amount |-> converted_amount,
                  exchange_rate |-> exchange_rate,
                  timestamp |-> t],
     floats |-> {original_amount, converted_amount, exchange_rate},
     counted |-> TRUE, labels |-> <<from_curr, to_curr>>]

\* lines 163-165 and the two round() of lines 175-176
Arithmetic(amount, from_curr, to_curr) ==
    LET amount_in_usd == FloatDiv(amount, EXCHANGE_RATES[from_curr])
        converted_amount == FloatMul(amount_in_usd, EXCHANGE_RATES[to_curr])
        rate == FloatDiv(EXCHANGE_RATES[to_curr], EXCHANGE_RATES[from_curr])
    IN  [converted_amount |-> FloatRound(converted_amount, 4),
         exchange_rate |-> FloatRound(rate, 6)]

\* Arithmetic, computed once for each conversion the model's requests ask for
Computed ==
    [x \in Conversions |-> Arithmetic(x[1], x[2], x[3])] @@ <<>>

\* the try block, lines 162-181
Conversion(conversion, from_curr, to_curr, t) ==
    IF FloatIsZero(EXCHANGE_RATES[from_curr])
    THEN \* ZeroDivisionError, caught by the except clause
         HTTPException(500, <<"Internal conversion error", <<>>>>)
    ELSE ConversionResult(conversion.amount, from_curr, to_curr,
            Computed[<<conversion.amount, from_curr, to_curr>>].converted_amount,
            Computed[<<conversion.amount, from_curr, to_curr>>].exchange_rate,
            t)

\* the input validation with the target currency looked up first
ValidatedTargetFirst(conversion, from_curr, to_curr, t) ==
    IF to_curr \notin DOMAIN EXCHANGE_RATES
    THEN HTTPException(400, <<"Unsupported target currency: ", to_curr>>)
    ELSE IF from_curr \notin DOMAIN EXCHANGE_RATES
    THEN HTTPException(400, <<"Unsupported source currency: ", from_curr>>)
    ELSE IF FloatLeZero(conversion.amount)
    THEN HTTPException(400, <<"Amount must be greater than 0", <<>>>>)
    ELSE Conversion(conversion, from_curr, to_curr, t)

\* the input validation, lines 150-159
Validated(conversion, from_curr, to_curr, t) ==
    IF from_curr \notin DOMAIN EXCHANGE_RATES
    THEN HTTPException(400, <<"Unsupported source currency: ", from_curr>>)
    ELSE IF to_curr \notin DOMAIN EXCHANGE_RATES
    THEN HTTPException(400, <<"Unsupported target currency: ", to_curr>>)
    ELSE IF FloatLeZero(conversion.amount)
    THEN HTTPException(400, <<"Amount must be greater than 0", <<>>>>)
    ELSE Conversion(conversion, from_curr, to_curr, t)

convert(conversion, t) ==
    Validated(conversion, upper(conversion.from_currency),
              upper(conversion.to_currency), t)

(***************************************************************************)
(* call_next: the route's handler, then the response made of its outcome.  *)
(* A body that does not parse as a ConversionRequest is answered 422       *)
(* before the handler runs.  What convert returns is rendered as JSON,     *)
(* which refuses nan and the infinities: rendering such a dictionary       *)
(* raises ValueError outside convert's try block, so the exception, not a  *)
(* response, comes back to add_observability.                              *)
(***************************************************************************)
JSONCompliant(floats) == \A x \in floats : x.cls = "fin"

Handler(request, t) ==
    CASE request.path = "/" -> root
      [] request.path = "/health" -> health_check(t)
      [] request.path = "/metrics" -> metrics
      [] request.path = "/currencies" -> list_currencies(t)
      [] request.path = "/convert" ->
            IF request.body.valid
            THEN convert(request.body, t)
            ELSE [kind |-> "RequestValidationError", status_code |-> 422,
                  content |-> [detail |-> <<"value is not a valid float", <<>>>>],
                  floats |-> {}, counted |-> FALSE, labels |-> <<>>]

\* the response made of a handler's outcome, or the exception
Render(outcome) ==
    [raised |-> ~JSONCompliant(outcome.floats),
     response |-> IF JSONCompliant(outcome.floats)
                  THEN [status |-> outcome.status_code,
                        headers |-> NoHeaders,
                        content |-> outcome.content]
                  ELSE NoResponse,
     counted |-> outcome.counted,
     labels |-> outcome.labels]

call_next(request, t) == Render(Handler(request, t))

(***************************************************************************)
(* add_observability, in the three steps its one await cuts it into.       *)
(***************************************************************************)
InFlight(i) == requests[i].pc \in {"awaiting", "returned", "raising"}

\* lines 74-79, up to the await
Enter(request) ==
    /\ Len(requests) < MaxRequests
    /\ uuids' = uuids + 1
    /\ REQUEST_COUNT' =
          Inc(REQUEST_COUNT, <<request.method, request.path, "pending">>)
    /\ requests' = Append(requests,
          [method |-> request.method, path |-> request.path,
           body |-> request.body, pc |-> "awaiting", start_time |-> now,
           request_id |-> uuids + 1, response |-> NoResponse])
    /\ UNCHANGED <<now, app_start_time, REQUEST_LATENCY, CONVERSION_COUNT>>

\* line 81: the awaited call_next runs the handler to its end
Handle(i) ==
    /\ requests[i].pc = "awaiting"
    /\ \E result \in {call_next(requests[i], now)} :
           /\ requests' = [requests EXCEPT
                  ![i].pc = IF result.raised THEN "raising" ELSE "returned",
                  ![i].response = result.response]
           /\ CONVERSION_COUNT' =
                  IF result.counted
                  THEN Inc(CONVERSION_COUNT, result.labels)
                  ELSE CONVERSION_COUNT
    /\ UNCHANGED <<now, app_start_time, REQUEST_COUNT, REQUEST_LATENCY, uuids>>

\* lines 83-97 with an increment that is lost when another request is in
\* flight
ExitLosingUpdate(i) ==
    /\ requests[i].pc = "returned"
    /\ LET request == requests[i]
           process_time == now - request.start_time
       IN  /\ REQUEST_LATENCY' =
                  Observe(REQUEST_LATENCY, <<request.method, request.path>>,
                          process_time)
           /\ REQUEST_COUNT' =
                  IF \E j \in 1..Len(requests) : j # i /\ InFlight(j)
                  THEN REQUEST_COUNT
                  ELSE Inc(REQUEST_COUNT, <<request.method, request.path,
                                            StatusLabel(request.response.status)>>)
           /\ requests' = [requests EXCEPT
                  ![i].pc = "done",
                  ![i].response.headers =
                      ("X-Process-Time" :> process_time) @@
                      ("X-Request-ID" :> request.request_id) @@
                      ("X-Trace-ID" :> request.request_id)]
    /\ UNCHANGED <<now, app_start_time, CONVERSION_COUNT, uuids>>

\* lines 83-97, after the await returned a response
Exit(i) ==
    /\ requests[i].pc = "returned"
    /\ LET request == requests[i]
           process_time == now - request.start_time
       IN  /\ REQUEST_LATENCY' =
                  Observe(REQUEST_LATENCY, <<request.method, request.path>>,
                          process_time)
           /\ REQUEST_COUNT' =
                  Inc(REQUEST_COUNT, <<request.method, request.path,
                                       StatusLabel(request.response.status)>>)
           /\ requests' = [requests EXCEPT
                  ![i].pc = "done",
                  ![i].response.headers =
                      ("X-Process-Time" :> process_time) @@
                      ("X-Request-ID" :> request.request_id) @@
                      ("X-Trace-ID" :> request.request_id)]
    /\ UNCHANGED <<now, app_start_time, CONVERSION_COUNT, uuids>>

\* line 81 when the await raises: nothing catches it, lines 83-97 are
\* skipped, and the server answers 500 itself
Unwind(i) ==
    /\ requests[i].pc = "raising"
    /\ requests' = [requests EXCEPT
          ![i].pc = "failed",
          ![i].response = [status |-> 500, headers |-> NoHeaders,
                           content |-> [detail |-> <<"Internal Server Error", <<>>>>]]]
    /\ UNCHANGED <<now, app_start_time, REQUEST_COUNT, REQUEST_LATENCY,
                   CONVERSION_COUNT, uuids>>

\* time passes: time.time() is taken never to step back while the process runs
Tick ==
    /\ now < MaxTime
    /\ now' = now + 1
    /\ UNCHANGED <<app_start_time, REQUEST_COUNT, REQUEST_LATENCY,
                   CONVERSION_COUNT, uuids, requests>>


StartTimes == {0, 1}

Init ==
    /\ app_start_time \in StartTimes
    /\ now = app_start_time
    /\ REQUEST_COUNT = <<>>
    /\ REQUEST_LATENCY = <<>>
    /\ CONVERSION_COUNT = <<>>
    /\ uuids = 0
    /\ requests = <<>>

\* the service under concurrent requests
Next ==
    \/ \E request \in Requests : Enter(request)
    \/ \E i \in 1..Len(requests) : Handle(i)
    \/ \E i \in 1..Len(requests) : Exit(i)
    \/ \E i \in 1..Len(requests) : Unwind(i)
    \/ Tick

Spec == Init /\ [][Next]_vars

\* one conversion request, any of ConvertRequests
NextConvert ==
    \/ \E request \in ConvertRequests : requests = <<>> /\ Enter(request)
    \/ \E i \in 1..Len(requests) : Handle(i)
    \/ \E i \in 1..Len(requests) : Exit(i)
    \/ \E i \in 1..Len(requests) : Unwind(i)

SpecConvert == Init /\ [][NextConvert]_vars

\* one conversion of an amount from a currency to itself
NextSame ==
    \/ \E request \in SameCurrencyRequests : requests = <<>> /\ Enter(request)
    \/ \E i \in 1..Len(requests) : Handle(i)
    \/ \E i \in 1..Len(requests) : Exit(i)

SpecSame == Init /\ [][NextSame]_vars

(***************************************************************************)
(* What the properties below speak of.                                     *)
(***************************************************************************)
\* the client has its response
Finished(i) == requests[i].pc \in {"done", "failed"}

Quiescent == \A i \in 1..Len(requests) : Finished(i)

\* the requests received so far for a method and a route
Served(method, path) ==
    {i \in 1..Len(requests) :
        requests[i].method = method /\ requests[i].path = path}

Routes == {<<requests[i].method, requests[i].path>> : i \in 1..Len(requests)}

Pairs == (DOMAIN EXCHANGE_RATES) \X (DOMAIN EXCHANGE_RATES)

\* the upper-cased currency pair a conversion request names
PairOf(request) ==
    <<upper(request.body.from_currency), upper(request.body.to_currency)>>

\* x > 0
FloatGtZero(x) ==
    CASE x.cls = "nan" -> FALSE
      [] x.cls = "inf" -> ~x.neg
      [] OTHER -> ~x.neg /\ x.m # <<>>

RealStatuses == {"200", "400", "422", "500"}

RECURSIVE SumOver(_, _)
SumOver(counter, keys) ==
    IF keys = {} THEN 0
    ELSE LET k == CHOOSE key \in keys : TRUE
         IN  counter[k] + SumOver(counter, keys \ {k})

\* the sum of the series of REQUEST_COUNT for a method and a route whose
\* status label is one of statuses
Total(method, path, statuses) ==
    SumOver(REQUEST_COUNT,
            {labels \in DOMAIN REQUEST_COUNT :
                /\ labels[1] = method /\ labels[2] = path
                /\ labels[3] \in statuses})

ObservabilityHeaders == {"X-Process-Time", "X-Request-ID", "X-Trace-ID"}

(***************************************************************************)
(* C1.  Once every request has been answered, the conversion counter       *)
(* labelled (A, B) equals the number of conversions answered 200 whose     *)
(* upper-cased codes are (A, B), and no other series of the counter        *)
(* exists.                                                                 *)
(***************************************************************************)
C1_ConversionCountIsSuccesses ==
    Quiescent =>
        \A pair \in Pairs \cup DOMAIN CONVERSION_COUNT :
            Value(CONVERSION_COUNT, pair) =
                Cardinality({i \in Served("POST", "/convert") :
                                /\ requests[i].response.status = 200
                                /\ PairOf(requests[i]) = pair})

(***************************************************************************)
(* C2.  A well-formed conversion request is answered 200 with              *)
(* converted_amount and exchange_rate when its amount is > 0 and both its  *)
(* upper-cased codes are in the rate table, and 400 in every other case.   *)
(***************************************************************************)
C2_OkOrBadRequest ==
    \A i \in Served("POST", "/convert") :
        Finished(i) /\ requests[i].body.valid =>
            IF /\ FloatGtZero(requests[i].body.amount)
               /\ PairOf(requests[i]) \in Pairs
            THEN /\ requests[i].response.status = 200
                 /\ {"converted_amount", "exchange_rate"} \subseteq
                        DOMAIN requests[i].response.content
            ELSE requests[i].response.status = 400

(***************************************************************************)
(* C4.  The wrapping always completes: a request whose handler has run is  *)
(* on its way through the post-handler steps or has been through them,     *)
(* with its latency observed, its status counted and the three headers on  *)
(* its response.                                                           *)
(***************************************************************************)
C4_WrappingCompletes ==
    \A i \in 1..Len(requests) :
        /\ requests[i].pc # "awaiting" => requests[i].pc \in {"returned", "done"}
        /\ Finished(i) =>
              /\ <<requests[i].method, requests[i].path>> \in DOMAIN REQUEST_LATENCY
              /\ Total(requests[i].method, requests[i].path,
                       {StatusLabel(requests[i].response.status)}) >= 1
              /\ DOMAIN requests[i].response.headers = ObservabilityHeaders

(***************************************************************************)
(* C5.  One increment a request: once every request has been answered,     *)
(* the series of the request counter for a method and a route sum to the   *)
(* number of requests answered for that method and route.                  *)
(***************************************************************************)
C5_OneIncrementPerRequest ==
    Quiescent =>
        \A route \in Routes :
            Total(route[1], route[2], RealStatuses \cup {"pending"}) =
                Cardinality(Served(route[1], route[2]))

(***************************************************************************)
(* C6.  Every response carries X-Process-Time, X-Request-ID and            *)
(* X-Trace-ID, X-Trace-ID equal to X-Request-ID, and no two requests get   *)
(* the same X-Request-ID.                                                  *)
(***************************************************************************)
C6_HeadersOnEveryResponse ==
    \A i \in 1..Len(requests) :
        Finished(i) =>
            /\ DOMAIN requests[i].response.headers = ObservabilityHeaders
            /\ requests[i].response.headers["X-Trace-ID"] =
                   requests[i].response.headers["X-Request-ID"]
            /\ \A j \in 1..Len(requests) :
                   Finished(j) /\ j # i =>
                       requests[j].response.headers["X-Request-ID"] #
                           requests[i].response.headers["X-Request-ID"]

(***************************************************************************)
(* C10.  For every method and route, the "pending" series equals the sum   *)
(* of the series with a real status code plus the number of requests       *)
(* between the increment before the handler and the one after it.          *)
(***************************************************************************)
C10_PendingIsStatusesPlusInFlight ==
    \A route \in Routes :
        Total(route[1], route[2], {"pending"}) =
            Total(route[1], route[2], RealStatuses) +
            Cardinality({i \in Served(route[1], route[2]) : InFlight(i)})

(***************************************************************************)
(* C3.  As stated: a conversion request with a code absent from the rate   *)
(* table in either field is answered 400 with a message naming that code,  *)
(* whatever the other field holds.                                         *)
(***************************************************************************)
C3_EveryUnknownCodeNamed ==
    \A i \in Served("POST", "/convert") :
        Finished(i) /\ requests[i].body.valid =>
            \A k \in 1..2 :
                PairOf(requests[i])[k] \notin DOMAIN EXCHANGE_RATES =>
                    /\ requests[i].response.status = 400
                    /\ requests[i].response.content.detail[2] =
                           PairOf(requests[i])[k]

(***************************************************************************)
(* C3, amended.  Such a request is answered 400 for every amount, and the  *)
(* message names one code: the upper-cased from_currency when it is        *)
(* absent from the table, and otherwise the upper-cased to_currency.       *)
(***************************************************************************)
C3_FirstUnknownCodeNamed ==
    \A i \in Served("POST", "/convert") :
        /\ Finished(i) /\ requests[i].body.valid
        /\ PairOf(requests[i]) \notin Pairs
        => /\ requests[i].response.status = 400
           /\ requests[i].response.content.detail =
                  IF PairOf(requests[i])[1] \notin DOMAIN EXCHANGE_RATES
                  THEN <<"Unsupported source currency: ", PairOf(requests[i])[1]>>
                  ELSE <<"Unsupported target currency: ", PairOf(requests[i])[2]>>

\* a request with two different unknown codes has been answered 400 with a
\* message naming the first
C3_TwoUnknownCodesAnswered ==
    \E i \in Served("POST", "/convert") :
        /\ Finished(i) /\ requests[i].body.valid
        /\ PairOf(requests[i])[1] \notin DOMAIN EXCHANGE_RATES
        /\ PairOf(requests[i])[2] \notin DOMAIN EXCHANGE_RATES
        /\ PairOf(requests[i])[1] # PairOf(requests[i])[2]
        /\ requests[i].response.status = 400
        /\ requests[i].response.content.detail[2] = PairOf(requests[i])[1]

(***************************************************************************)
(* C7.  Each run of the /health handler returns 200 and "healthy", with    *)
(* an uptime that is >= 0 and >= the uptime of every earlier /health       *)
(* response, whatever requests were served before.                         *)
(***************************************************************************)
HealthResponses ==
    {i \in Served("GET", "/health") : requests[i].pc # "awaiting"}

Counted(i) ==
    /\ requests[i].pc # "awaiting"
    /\ requests[i].body.valid
    /\ PairOf(requests[i]) \in Pairs
    /\ ~FloatLeZero(requests[i].body.amount)

C8_NoLostIncrement ==
    /\ \A route \in Routes :
          /\ Total(route[1], route[2], {"pending"}) =
                 Cardinality(Served(route[1], route[2]))
          /\ \A status \in RealStatuses :
                 Total(route[1], route[2], {status}) =
                     Cardinality({i \in Served(route[1], route[2]) :
                         /\ requests[i].pc = "done"
                         /\ StatusLabel(requests[i].response.status) = status})
    /\ \A labels \in DOMAIN REQUEST_COUNT : <<labels[1], labels[2]>> \in Routes
    /\ \A pair \in DOMAIN CONVERSION_COUNT \cup
                   {PairOf(requests[i]) : i \in Served("POST", "/convert")} :
          Value(CONVERSION_COUNT, pair) =
              Cardinality({i \in Served("POST", "/convert") :
                              Counted(i) /\ PairOf(requests[i]) = pair})

\* two conversions of one pair were in flight at once, both have been
\* answered 200, and their series stand at 2
C8_TwoInterleavedConversions ==
    \E i, j \in Served("POST", "/convert") :
        /\ i # j
        /\ requests[i].pc = "done" /\ requests[j].pc = "done"
        /\ requests[i].response.status = 200
        /\ requests[j].response.status = 200
        /\ PairOf(requests[i]) = PairOf(requests[j])
        /\ requests[i].start_time < requests[j].start_time
        /\ requests[j].start_time <
               requests[i].start_time +
               requests[i].response.headers["X-Process-Time"]
        /\ Value(CONVERSION_COUNT, PairOf(requests[i])) = 2
        /\ Total("POST", "/convert", {"200"}) = 2
        /\ Total("POST", "/convert", {"pending"}) = 2

(***************************************************************************)
(* C9.  A conversion of an amount a > 0 from a supported currency to       *)
(* itself returns converted_amount = round(a, 4) and exchange_rate = 1.0.  *)
(***************************************************************************)
One == FromDecimal(FALSE, 1, 0)

C9_SameCurrencyIsIdentity ==
    \A i \in Served("POST", "/convert") :
        /\ Finished(i) /\ requests[i].body.valid
        /\ PairOf(requests[i]) \in Pairs
        /\ PairOf(requests[i])[1] = PairOf(requests[i])[2]
        /\ FloatGtZero(requests[i].body.amount)
        => /\ requests[i].response.status = 200
           /\ FloatEq(requests[i].response.content.converted_amount,
                      FloatRound(requests[i].body.amount, 4))
           /\ FloatEq(requests[i].response.content.exchange_rate, One)

=============================================================================
